---- MODULE Spec2Model ----
(***************************************************************************)
(* Model of the repair-request store of the service-centre application:   *)
(* the SQLite database behind src/src/database.py, the CSV import of      *)
(* src/src/import_csv.py run by src/main.py at every application start,   *)
(* and the request deletion of src/src/gui.py.                            *)
(*                                                                         *)
(* The store is modelled twice: db is the committed (persisted) content   *)
(* of the database file, tx is what the single shared connection reads    *)
(* and writes (db plus the changes of the open transaction).  commit      *)
(* copies tx to db, rollback copies db to tx, and a process start opens   *)
(* a new connection, which loses whatever was not committed.              *)
(*                                                                         *)
(* Time stamps ("%Y-%m-%d %H:%M:%S" strings, compared as text by SQLite)  *)
(* are modelled as integers counting clock ticks; a calendar day has      *)
(* DayLen ticks (a tick is an hour), and the date d of a CSV file         *)
(* followed by " 00:00:00" is the tick d * DayLen.                        *)
(*                                                                         *)
(* now is the wall clock, pc the position of the process (the three steps *)
(* of the import at start, then "ready" for the operations), last the     *)
(* outcome of the latest step and steps the number of operations run so   *)
(* far, capped by MaxSteps.  An operation's fault parameter is the        *)
(* storage raising sqlite3.Error (disk full, database locked) in execute  *)
(* or in commit.                                                          *)
(***************************************************************************)
EXTENDS Integers, Sequences, FiniteSets, TLC

VARIABLES db, tx, now, pc, last, steps

vars == <<db, tx, now, pc, last, steps>>

-----------------------------------------------------------------------------
(* Bounds of the model. *)

MaxId == 2
MaxCommentId == 2
MaxCsvRows == 2
MaxCsvDay == 0
MaxTicks == 1
MaxSteps == 5
DayLen == 24
MaxQueryDate == 2
MaxTermLen == 2
MaxArgDay == 1
MaxDistRequests == 6
MaxWrites == 4

-----------------------------------------------------------------------------
(* Values. *)

\* SQL NULL in a date column (completion_date TEXT, nullable).
NULL == -1
\* The literal text "null" of the completionDate column of the CSV file.
CSV_NULL == -1
\* A field csv.DictReader leaves None because the CSV line is too short.
CSV_MISSING == -2
\* Python None / SQL NULL in a text column.
NONE == "<None>"
\* A date column holding the text " 00:00:00": what import_requests stores
\* for an empty startDate or completionDate field.  strptime rejects it, and
\* as a text it sorts before every time stamp.
MALFORMED == -3

\* The status 'Gotova k vydache' (ready for pickup), in ASCII.
ST_READY == "Gotova k vydache"
\* The status 'Zavershena' (completed).
ST_COMPLETED == "Zavershena"
\* The status 'Novaya' (new), the default of the status column.
ST_NEW == "Novaya"

\* 'V processe remonta' (in progress).
ST_IN_PROGRESS == "V processe remonta"

\* The statuses of STATUS_CHOICES the model passes to update_request_status.
UpdateStatuses == {ST_IN_PROGRESS, ST_READY, ST_COMPLETED}

\* The statuses the CSV file of requests uses.
CsvStatuses == {ST_NEW, ST_READY}

MasterArgs == {NONE, "", "Master Ivanov", "Master Petrov"}
DeadlineArgs == {"2024-12-31"}
NewDeadlines == {"2025-01-15"}
DeviceTypes == {"Holodilnik"}
PartsArgs == {"remen"}
CsvLogins == {"login1"}

CsvDays == 0..MaxCsvDay
\* The application runs on the days after the last day the CSV files name.
FirstNow == (MaxCsvDay + 1) * DayLen
MaxNow == FirstNow + MaxTicks

RequestIds == 1..MaxId
CommentIds == 1..MaxCommentId

-----------------------------------------------------------------------------
(* Helpers on finite maps (tables keyed by rowid). *)

Put(f, k, v) == [x \in (DOMAIN f) \cup {k} |-> IF x = k THEN v ELSE f[x]]

Drop(f, ks) == [x \in (DOMAIN f) \ ks |-> f[x]]

Max2(a, b) == IF a >= b THEN a ELSE b

\* The largest element of a finite set of naturals (0 for the empty set).
SetMax(S) == IF S = {} THEN 0 ELSE CHOOSE x \in S : \A y \in S : x >= y

SeqsUpTo(S, n) == UNION {[1..k -> S] : k \in 0..n}

EmptyTable == [x \in {} |-> 0]

\* The three tables and sqlite_sequence (AUTOINCREMENT) right after
\* CREATE TABLE IF NOT EXISTS on a new file.  had is a history field, not a
\* table: the ids of the requests the store holds or has held.
EmptyStore ==
    [requests |-> EmptyTable,
     comments |-> EmptyTable,
     users |-> EmptyTable,
     seq |-> [requests |-> 0, comments |-> 0, users |-> 0],
     had |-> {}]

\* Faulty variant of ForeignKeyOk: foreign keys not enforced (the pragma
\* missing), which C9 must tell from it.
ForeignKeyOff(s, request_id) == TRUE

\* PRAGMA foreign_keys = ON: the child row's request_id must be a request.
ForeignKeyOk(s, request_id) == request_id \in DOMAIN s.requests

\* Faulty variant of NextRowid: INTEGER PRIMARY KEY with no AUTOINCREMENT,
\* one more than the largest rowid the table holds now, which C26 must tell
\* from it.
NextRowidOfHeld(s, table) == SetMax(DOMAIN s[table]) + 1

\* INTEGER PRIMARY KEY AUTOINCREMENT: one more than the largest rowid the
\* table has ever held.
NextRowid(s, table) == s.seq[table] + 1

-----------------------------------------------------------------------------
(* The repository: src/src/database.py. *)

\* The completion_date of request id in store s (NULL when there is no row).
CompletionOf(s, id) ==
    IF id \in DOMAIN s.requests THEN s.requests[id].completion_date ELSE NULL

\* What the last step reports: the operation, the id it addressed (for
\* add_request the id it returned), how it ended (ret: "True", "False",
\* "id", "None" or "raise"), the master_name argument it was given and the
\* completion_date the addressed request had before it.
Outcome(op, id, ret, master, was) ==
    [op |-> op, id |-> id, ret |-> ret, master |-> master, was |-> was]

\* Faulty variant of Truthy: "is not None" in place of truthiness, which C6
\* must tell from it.
NotNone(str) == str # NONE

\* Python truthiness of an Optional[str]: None and "" are false.
Truthy(str) == str # NONE /\ str # ""

\* Faulty variant of NewRequestRow: the deadline argument is not stored,
\* which C4 must tell from it.
NewRequestRowNoDeadline(device_type, deadline, t) ==
    [created_date |-> t,
     device_type |-> device_type,
     status |-> ST_NEW,
     master_name |-> NONE,
     deadline |-> NONE,
     completion_date |-> NULL,
     updated_date |-> t,
     ever |-> FALSE]

\* The row add_request inserts (of the free-text columns device_model,
\* problem_description, client_name and client_phone, which no operation
\* reads or changes after the insert, none is kept).  ever is a history field, not a column: it
\* records that the row has been put into ST_READY or ST_COMPLETED.
NewRequestRow(device_type, deadline, t) ==
    [created_date |-> t,
     device_type |-> device_type,
     status |-> ST_NEW,
     master_name |-> NONE,
     deadline |-> deadline,
     completion_date |-> NULL,
     updated_date |-> t,
     ever |-> FALSE]

\* INSERT INTO requests without an id: the row gets the next AUTOINCREMENT
\* rowid, which sqlite_sequence remembers.
InsertRequest(s, row) ==
    LET id == NextRowid(s, "requests")
    IN  [s EXCEPT !.requests = Put(@, id, row), !.seq.requests = id,
                  !.had = @ \cup {id}]

\* The statuses that stamp completion_date.
DoneStatuses == {ST_READY, ST_COMPLETED}

\* Faulty variant of UpdatedRow: a status outside DoneStatuses clears
\* completion_date, which C2 must tell from it.
UpdatedRowClearing(r, new_status, master_name, t) ==
    LET r1 == [r EXCEPT !.status = new_status, !.updated_date = t]
        r2 == IF new_status \in DoneStatuses
              THEN [r1 EXCEPT !.completion_date = t, !.ever = TRUE]
              ELSE [r1 EXCEPT !.completion_date = NULL]
    IN  IF Truthy(master_name) THEN [r2 EXCEPT !.master_name = master_name]
                               ELSE r2

\* Faulty variant of UpdatedRow: completion_date is stamped only when it is
\* still null (the first stamp is kept), which C7 must tell from it.
UpdatedRowKeepFirst(r, new_status, master_name, t) ==
    LET r1 == [r EXCEPT !.status = new_status, !.updated_date = t]
        r2 == IF new_status \in DoneStatuses /\ r.completion_date = NULL
              THEN [r1 EXCEPT !.completion_date = t, !.ever = TRUE]
              ELSE r1
    IN  IF Truthy(master_name) THEN [r2 EXCEPT !.master_name = master_name]
                               ELSE r2

\* The SET clause update_request_status builds, applied to one row.
UpdatedRow(r, new_status, master_name, t) ==
    LET r1 == [r EXCEPT !.status = new_status, !.updated_date = t]
        r2 == IF new_status \in DoneStatuses
              THEN [r1 EXCEPT !.completion_date = t, !.ever = TRUE]
              ELSE r1
    IN  IF Truthy(master_name) THEN [r2 EXCEPT !.master_name = master_name]
                               ELSE r2

\* UPDATE requests SET ... WHERE id = ?
UpdateStatusExec(s, request_id, new_status, master_name, t) ==
    IF request_id \in DOMAIN s.requests
    THEN [s EXCEPT !.requests[request_id] =
                       UpdatedRow(@, new_status, master_name, t)]
    ELSE s

\* Faulty variant of RowMatched: True whatever the UPDATE matched, which
\* C5 must tell from it.
RowMatchedAlways(s, request_id) == "True"

\* cursor.rowcount > 0 after an UPDATE ... WHERE id = ?
RowMatched(s, request_id) ==
    IF request_id \in DOMAIN s.requests THEN "True" ELSE "False"

\* Faulty variant of ExtendDeadlineExec: updated_date is not refreshed,
\* which C8 must tell from it.
ExtendDeadlineExecStale(s, request_id, new_deadline, t) ==
    IF request_id \in DOMAIN s.requests
    THEN [s EXCEPT !.requests[request_id] = [@ EXCEPT !.deadline = new_deadline]]
    ELSE s

\* UPDATE requests SET deadline = ?, updated_date = ? WHERE id = ?
ExtendDeadlineExec(s, request_id, new_deadline, t) ==
    IF request_id \in DOMAIN s.requests
    THEN [s EXCEPT !.requests[request_id] =
                       [@ EXCEPT !.deadline = new_deadline, !.updated_date = t]]
    ELSE s

\* INSERT INTO comments without an id.
InsertComment(s, request_id, parts_ordered) ==
    LET id == NextRowid(s, "comments")
    IN  [s EXCEPT !.comments =
                      Put(@, id, [request_id |-> request_id,
                                  parts_ordered |-> parts_ordered]),
                  !.seq.comments = id]

\* Faulty variant of DeleteRequestExec: the comments are not cascaded,
\* which C10 must tell from it.
DeleteRequestNoCascade(s, request_id) ==
    [s EXCEPT !.requests = Drop(@, {request_id})]

\* DELETE FROM requests WHERE id = ?, with ON DELETE CASCADE on comments.
DeleteRequestExec(s, request_id) ==
    [s EXCEPT !.requests = Drop(@, {request_id}),
              !.comments = Drop(@, {c \in DOMAIN @ : @[c].request_id = request_id})]

\* add_request: INSERT, commit, return lastrowid; on sqlite3.Error rollback
\* and re-raise.  fault: the storage raises sqlite3.Error in execute or commit.
AddRequest(device_type, deadline, fault) ==
    /\ pc = "ready"
    /\ steps < MaxSteps
    /\ steps' = steps + 1
    /\ IF fault
       THEN /\ tx' = db
            /\ db' = db
            /\ last' = Outcome("add_request", 0, "raise", NONE, NULL)
       ELSE /\ NextRowid(tx, "requests") <= MaxId
            /\ tx' = InsertRequest(tx, NewRequestRow(device_type, deadline, now))
            /\ db' = tx'
            /\ last' = Outcome("add_request", NextRowid(tx, "requests"), "id", NONE, NULL)
    /\ UNCHANGED <<now, pc>>

\* update_request_status: UPDATE, commit, return rowcount > 0.  There is no
\* try/except: a fault in execute leaves the transaction as it was, a fault
\* in commit leaves the UPDATE in the open transaction, and both raise.
UpdateRequestStatus(request_id, new_status, master_name, fault) ==
    /\ pc = "ready"
    /\ steps < MaxSteps
    /\ steps' = steps + 1
    /\ CASE fault = "none" ->
              /\ tx' = UpdateStatusExec(tx, request_id, new_status, master_name, now)
              /\ db' = tx'
              /\ last' = Outcome("update_request_status", request_id, RowMatched(tx, request_id),
                                 master_name, CompletionOf(tx, request_id))
         [] fault = "execute" ->
              /\ UNCHANGED <<tx, db>>
              /\ last' = Outcome("update_request_status", request_id, "raise",
                                 master_name, CompletionOf(tx, request_id))
         [] fault = "commit" ->
              /\ tx' = UpdateStatusExec(tx, request_id, new_status, master_name, now)
              /\ db' = db
              /\ last' = Outcome("update_request_status", request_id, "raise",
                                 master_name, CompletionOf(tx, request_id))
    /\ UNCHANGED <<now, pc>>

\* extend_deadline: UPDATE, commit, return rowcount > 0; on sqlite3.Error
\* rollback and return False.
ExtendDeadline(request_id, new_deadline, fault) ==
    /\ pc = "ready"
    /\ steps < MaxSteps
    /\ steps' = steps + 1
    /\ IF fault
       THEN /\ tx' = db
            /\ db' = db
            /\ last' = Outcome("extend_deadline", request_id, "False",
                               NONE, CompletionOf(tx, request_id))
       ELSE /\ tx' = ExtendDeadlineExec(tx, request_id, new_deadline, now)
            /\ db' = tx'
            /\ last' = Outcome("extend_deadline", request_id, RowMatched(tx, request_id),
                               NONE, CompletionOf(tx, request_id))
    /\ UNCHANGED <<now, pc>>

\* add_comment: INSERT, commit, return True; on sqlite3.Error (a storage
\* fault, or the foreign key on request_id) rollback and return False.
AddComment(request_id, parts_ordered, fault) ==
    /\ pc = "ready"
    /\ steps < MaxSteps
    /\ steps' = steps + 1
    /\ IF fault \/ ~ForeignKeyOk(tx, request_id)
       THEN /\ tx' = db
            /\ db' = db
            /\ last' = Outcome("add_comment", request_id, "False",
                               NONE, CompletionOf(tx, request_id))
       ELSE /\ NextRowid(tx, "comments") <= MaxCommentId
            /\ tx' = InsertComment(tx, request_id, parts_ordered)
            /\ db' = tx'
            /\ last' = Outcome("add_comment", request_id, "True",
                               NONE, CompletionOf(tx, request_id))
    /\ UNCHANGED <<now, pc>>

\* ServiceCenterApp._delete_request (src/src/gui.py): DELETE, commit, with no
\* try/except, so a fault in commit leaves the DELETE in the open transaction.
DeleteRequest(request_id, fault) ==
    /\ pc = "ready"
    /\ steps < MaxSteps
    /\ steps' = steps + 1
    /\ CASE fault = "none" ->
              /\ tx' = DeleteRequestExec(tx, request_id)
              /\ db' = tx'
              /\ last' = Outcome("delete_request", request_id, "None",
                               NONE, CompletionOf(tx, request_id))
         [] fault = "execute" ->
              /\ UNCHANGED <<tx, db>>
              /\ last' = Outcome("delete_request", request_id, "raise",
                               NONE, CompletionOf(tx, request_id))
         [] fault = "commit" ->
              /\ tx' = DeleteRequestExec(tx, request_id)
              /\ db' = db
              /\ last' = Outcome("delete_request", request_id, "raise",
                               NONE, CompletionOf(tx, request_id))
    /\ UNCHANGED <<now, pc>>

-----------------------------------------------------------------------------
(* The CSV import: src/src/import_csv.py, run by src/main.py. *)

\* Rows of inputDataUsers.csv (the columns the store keeps).
UserRows == [login : CsvLogins, fio : {"Petrov P.P."}]

\* Rows of inputDataRequests.csv.  completionDate is a day, the text "null"
\* (CSV_NULL), or absent (CSV_MISSING) when the line is cut short.
RequestRows ==
    [requestID : RequestIds,
     startDate : CsvDays,
     homeTechType : DeviceTypes,
     requestStatus : CsvStatuses,
     completionDate : CsvDays \cup {CSV_NULL, CSV_MISSING}]

\* Rows of inputDataComments.csv.
CommentRows == [commentID : CommentIds, requestID : RequestIds]

\* f"{date} 00:00:00": the first tick of the day.
DayStart(day) == day * DayLen

\* Faulty variant of InsertOrIgnoreUser: a plain INSERT with no UNIQUE
\* username, which C11 must tell from it.
InsertUser(s, row) ==
    LET id == NextRowid(s, "users")
    IN  [s EXCEPT !.users = Put(@, id, [username |-> row.login,
                                        full_name |-> row.fio]),
                  !.seq.users = id]

\* INSERT OR IGNORE INTO users: a row whose username is taken is skipped.
InsertOrIgnoreUser(s, row) ==
    IF \E u \in DOMAIN s.users : s.users[u].username = row.login
    THEN s
    ELSE LET id == NextRowid(s, "users")
         IN  [s EXCEPT !.users = Put(@, id, [username |-> row.login,
                                             full_name |-> row.fio]),
                       !.seq.users = id]

RECURSIVE ImportUsersFrom(_, _, _)
\* The loop of import_users over the rows from the i-th on.
ImportUsersFrom(s, file, i) ==
    IF i > Len(file) THEN s
    ELSE ImportUsersFrom(InsertOrIgnoreUser(s, file[i]), file, i + 1)

\* The values import_requests binds for one CSV row.
ImportedRequestRow(s, row, t) ==
    [created_date |-> DayStart(row.startDate),
     device_type |-> row.homeTechType,
     status |-> row.requestStatus,
     master_name |-> NONE,
     deadline |-> NONE,
     completion_date |-> IF row.completionDate = CSV_NULL
                         THEN NULL
                         ELSE DayStart(row.completionDate),
     updated_date |-> t,
     ever |-> row.requestStatus \in DoneStatuses]

\* Faulty variant of InsertOrIgnoreRequest: INSERT OR REPLACE, which
\* overwrites the row whose id exists; C30 must tell it from
\* InsertOrIgnoreRequest.
InsertOrReplaceRequest(s, id, r) ==
    [s EXCEPT !.requests = Put(@, id, r),
              !.seq.requests = Max2(@, id),
              !.had = @ \cup {id}]

\* INSERT OR IGNORE INTO requests (id, ...): a row whose id exists is
\* skipped; an explicit id above sqlite_sequence raises it.
InsertOrIgnoreRequest(s, id, r) ==
    IF id \in DOMAIN s.requests
    THEN s
    ELSE [s EXCEPT !.requests = Put(@, id, r),
                   !.seq.requests = Max2(@, id),
                   !.had = @ \cup {id}]

RECURSIVE ImportRequestsFrom(_, _, _, _)
\* The loop of import_requests over the rows from the i-th on.  A row whose
\* completionDate is None raises TypeError (None + " 00:00:00") and ends the
\* loop with the rows before it inserted and not committed.
ImportRequestsFrom(s, file, i, t) ==
    IF i > Len(file) THEN [store |-> s, raised |-> FALSE]
    ELSE IF file[i].completionDate = CSV_MISSING
         THEN [store |-> s, raised |-> TRUE]
         ELSE ImportRequestsFrom(
                  InsertOrIgnoreRequest(s, file[i].requestID,
                                        ImportedRequestRow(s, file[i], t)),
                  file, i + 1, t)

\* One row of import_comments: skipped when its request does not exist,
\* else INSERT OR IGNORE INTO comments (id, ...), parts_ordered left NULL.
ImportCommentRow(s, row) ==
    IF row.requestID \notin DOMAIN s.requests \/ row.commentID \in DOMAIN s.comments
    THEN s
    ELSE [s EXCEPT !.comments = Put(@, row.commentID,
                                    [request_id |-> row.requestID,
                                     parts_ordered |-> NONE]),
                   !.seq.comments = Max2(@, row.commentID)]

RECURSIVE ImportCommentsFrom(_, _, _)
\* The loop of import_comments over the rows from the i-th on.
ImportCommentsFrom(s, file, i) ==
    IF i > Len(file) THEN s
    ELSE ImportCommentsFrom(ImportCommentRow(s, file[i]), file, i + 1)

\* import_initial_data: the three imports in order on one connection; an
\* exception in import_requests is caught and skips import_comments.  The
\* result is what the connection holds afterwards.
ImportInitialData(s, users_file, requests_file, comments_file, t) ==
    LET s1 == ImportUsersFrom(s, users_file, 1)
        r == ImportRequestsFrom(s1, requests_file, 1, t)
    IN  IF r.raised THEN r.store
                    ELSE ImportCommentsFrom(r.store, comments_file, 1)

\* main / initialize_application: a new process opens a new connection
\* (what the previous one had not committed is lost) and starts the import.
StartApplication ==
    /\ pc = "ready"
    /\ steps < MaxSteps
    /\ steps' = steps + 1
    /\ tx' = db
    /\ pc' = "import_users"
    /\ last' = Outcome("start", 0, "None", NONE, NULL)
    /\ UNCHANGED <<db, now>>

\* import_users(USERS_CSV): every row, then commit.  (A file that does not
\* exist is the empty file: nothing is inserted.)
ImportUsers(file) ==
    /\ pc = "import_users"
    /\ steps < MaxSteps
    /\ steps' = steps + 1
    /\ tx' = ImportUsersFrom(tx, file, 1)
    /\ db' = tx'
    /\ pc' = "import_requests"
    /\ last' = Outcome("import_users", 0, "None", NONE, NULL)
    /\ UNCHANGED now

\* import_requests(REQUESTS_CSV): every row, then commit.  An exception
\* leaves the loop before the commit; import_initial_data catches it, prints
\* it and skips import_comments.
ImportRequests(file) ==
    /\ pc = "import_requests"
    /\ steps < MaxSteps
    /\ steps' = steps + 1
    /\ LET res == ImportRequestsFrom(tx, file, 1, now)
       IN  /\ tx' = res.store
           /\ IF res.raised
              THEN /\ db' = db
                   /\ pc' = "ready"
                   /\ last' = Outcome("import_requests", 0, "raise", NONE, NULL)
              ELSE /\ db' = tx'
                   /\ pc' = "import_comments"
                   /\ last' = Outcome("import_requests", 0, "None", NONE, NULL)
    /\ UNCHANGED now

\* import_comments(COMMENTS_CSV): every row, then commit.
ImportComments(file) ==
    /\ pc = "import_comments"
    /\ steps < MaxSteps
    /\ steps' = steps + 1
    /\ tx' = ImportCommentsFrom(tx, file, 1)
    /\ db' = tx'
    /\ pc' = "ready"
    /\ last' = Outcome("import_comments", 0, "None", NONE, NULL)
    /\ UNCHANGED now

\* datetime.now() advances.
Tick ==
    /\ now < MaxNow
    /\ now' = now + 1
    /\ last' = Outcome("tick", 0, "None", NONE, NULL)
    /\ UNCHANGED <<db, tx, pc, steps>>

-----------------------------------------------------------------------------
(* The read operations of the repository: get_all_requests and             *)
(* search_requests of src/src/database.py.  They are functions of the      *)
(* store; a result is the list of the ids of the rows returned, and pc     *)
(* goes from "query" to "answered" when the caller has it.  A text         *)
(* column is a sequence of characters, each written as a string: "a" and   *)
(* "A" are an ASCII letter in its two cases, "zh" and "ZH" a Cyrillic      *)
(* letter in its two cases, "1" and "2" digits, "%" and "_" themselves.    *)

\* What a read operation reports: its name, its argument and its result.
Answer(op, arg, ret) == [op |-> op, arg |-> arg, ret |-> ret]

\* A row of the table requests with the columns the read operations use
\* (problem_description, master_name and deadline are given their values
\* where a store is built).
QueryRow(created_date, status, device_type, completion_date, client_name, client_phone, device_model) ==
    [created_date |-> created_date,
     device_type |-> device_type,
     device_model |-> device_model,
     problem_description |-> "ne vklyuchaetsya",
     client_name |-> client_name,
     client_phone |-> client_phone,
     status |-> status,
     master_name |-> NONE,
     deadline |-> NONE,
     completion_date |-> completion_date,
     updated_date |-> created_date]

\* The ids of the stored requests (any positive id can be stored: the CSV
\* import inserts the ids its file names).
QueryIds == {1, 2, 12}

\* The stores whose requests have the ids of one set of idsets and each a
\* row of rows
\* (sqlite_sequence holds the largest id inserted).
StoresOf(idsets, rows) ==
    UNION {{[EmptyStore EXCEPT !.requests = f, !.seq.requests = SetMax(D),
                               !.had = D] :
                f \in [D -> rows]} : D \in idsets}

\* Faulty variant of NewestFirst: ORDER BY created_date ASC, which C12 must
\* tell from it.
OldestFirst(s, a, b) == s.requests[a].created_date <= s.requests[b].created_date

\* ORDER BY created_date DESC: row a may come before row b.
NewestFirst(s, a, b) == s.requests[a].created_date >= s.requests[b].created_date

\* The lists a SELECT ... ORDER BY created_date DESC can return for the rows
\* ids: each row once, newest first, rows of equal created_date in an order
\* SQL does not fix.
NewestFirstLists(s, ids) ==
    {q \in [1..Cardinality(ids) -> ids] :
        /\ \A i, j \in DOMAIN q : i # j => q[i] # q[j]
        /\ \A i, j \in DOMAIN q : i < j => NewestFirst(s, q[i], q[j])}

\* The rows get_all_requests selects: WHERE status = ? is added only when
\* status_filter is truthy.
SelectedByStatus(s, status_filter) ==
    IF Truthy(status_filter)
    THEN {id \in DOMAIN s.requests : s.requests[id].status = status_filter}
    ELSE DOMAIN s.requests

RECURSIVE DecimalText(_)
\* CAST(id AS TEXT): the decimal digits of a positive integer.
DecimalText(n) ==
    IF n < 10 THEN <<ToString(n)>>
    ELSE Append(DecimalText(n \div 10), ToString(n % 10))

\* LIKE compares letters without regard to case for ASCII letters only.
FoldAscii(c) == IF c = "A" THEN "a" ELSE c

RECURSIVE LikeFrom(_, _, _, _)
\* SQLite's LIKE: pattern from its i-th character on matches text from its
\* j-th character on; "%" stands for any run of characters, "_" for any one
\* character.
LikeFrom(pattern, i, text, j) ==
    IF i > Len(pattern) THEN j > Len(text)
    ELSE IF pattern[i] = "%"
         THEN \E k \in j..(Len(text) + 1) : LikeFrom(pattern, i + 1, text, k)
         ELSE /\ j <= Len(text)
              /\ (pattern[i] = "_" \/ FoldAscii(pattern[i]) = FoldAscii(text[j]))
              /\ LikeFrom(pattern, i + 1, text, j + 1)

\* text LIKE pattern
Like(text, pattern) == LikeFrom(pattern, 1, text, 1)

\* The rows search_requests selects, with pattern = f"%{search_term}%".
SelectedBySearch(s, search_term) ==
    LET pattern == <<"%">> \o search_term \o <<"%">>
    IN  {id \in DOMAIN s.requests :
            \/ Like(DecimalText(id), pattern)
            \/ Like(s.requests[id].client_name, pattern)
            \/ Like(s.requests[id].client_phone, pattern)
            \/ Like(s.requests[id].device_model, pattern)}

\* get_all_requests(status_filter)
GetAllRequests(status_filter) ==
    /\ pc = "query"
    /\ \E ret \in NewestFirstLists(tx, SelectedByStatus(tx, status_filter)) :
           last' = Answer("get_all_requests", status_filter, ret)
    /\ pc' = "answered"
    /\ UNCHANGED <<db, tx, now, steps>>

\* search_requests(search_term)
SearchRequests(search_term) ==
    /\ pc = "query"
    /\ \E ret \in NewestFirstLists(tx, SelectedBySearch(tx, search_term)) :
           last' = Answer("search_requests", search_term, ret)
    /\ pc' = "answered"
    /\ UNCHANGED <<db, tx, now, steps>>

\* The status_filter arguments: None, the empty string, two statuses rows
\* have and one no row has.
StatusFilters == {NONE, "", ST_NEW, ST_COMPLETED, ST_IN_PROGRESS}

\* The characters of search terms.
SearchChars == {"a", "A", "zh", "ZH", "1", "%", "_"}

\* The stores get_all_requests is applied to: created_date and status vary.
ListStores ==
    StoresOf(SUBSET QueryIds,
             {QueryRow(d, st, "Holodilnik", NULL, <<"zh">>, <<"7">>, <<"a">>) :
                  d \in 0..MaxQueryDate, st \in {ST_NEW, ST_COMPLETED}})

\* The stores search_requests is applied to: client_name and device_model
\* vary, and two values of created_date.
SearchStores ==
    StoresOf(SUBSET QueryIds,
             {QueryRow(d, ST_NEW, "Holodilnik", NULL, name, <<"7">>, model) :
                  d \in 0..1,
                  name \in {<<"ZH", "a">>, <<"zh", "zh">>},
                  model \in {<<"A", "2">>, <<"2", "_">>}})

\* Any of these stores, committed, and a connection open on it.
InitQuery ==
    /\ tx \in ListStores \cup SearchStores
    /\ db = tx
    /\ now = FirstNow
    /\ pc = "query"
    /\ last = Answer("init", NONE, <<>>)
    /\ steps = 0

NextQuery ==
    \/ \E f \in StatusFilters : GetAllRequests(f)
    \/ \E term \in SeqsUpTo(SearchChars, MaxTermLen) : SearchRequests(term)

SpecQuery == InitQuery /\ [][NextQuery]_vars

-----------------------------------------------------------------------------
(* The statistics: get_request_statistics of src/src/database.py and the   *)
(* algorithms of src/src/algorithms.py.  They are functions of the store.  *)
(* A number of hours, a percentage and a rate per day are kept in          *)
(* hundredths, as integers: 2900 is 29.0.                                  *)

\* Faulty variant of Rounded: floor in place of rounding, which C19 must
\* tell from it.
Truncated(num, den) == {num \div den}

\* round(x, 2) for x = num / den hundredths (den > 0): the nearest integer
\* number of hundredths.  When x lies half-way between two, the float that
\* stands for x decides which, and both are results.
Rounded(num, den) ==
    {n \in ((num \div den) - 1)..((num \div den) + 1) :
        2 * (IF n * den >= num THEN n * den - num ELSE num - n * den) <= den}

\* Faulty variant of Finished: the requests of status ST_COMPLETED only,
\* which C14 must tell from it.
FinishedAndCompleted(s) ==
    {id \in DOMAIN s.requests : /\ s.requests[id].completion_date # NULL
                                /\ s.requests[id].status = ST_COMPLETED}

\* WHERE completion_date IS NOT NULL
Finished(s) == {id \in DOMAIN s.requests : s.requests[id].completion_date # NULL}

RECURSIVE TicksSum(_, _)
\* The sum over the requests ids of completion_date - created_date.
TicksSum(s, ids) ==
    IF ids = {} THEN 0
    ELSE LET id == CHOOSE x \in ids : TRUE
         IN  (s.requests[id].completion_date - s.requests[id].created_date)
                 + TicksSum(s, ids \ {id})

\* round(mean of the hours from created_date to completion_date, 2) over
\* the requests ids (not empty): a tick is 24 / DayLen hours.
MeanHours(s, ids) ==
    Rounded(TicksSum(s, ids) * 24 * 100, DayLen * Cardinality(ids))

\* strptime raises ValueError on the created_date or the completion_date
\* of request id.
Unparsable(s, id) ==
    \/ s.requests[id].created_date = MALFORMED
    \/ s.requests[id].completion_date = MALFORMED

\* What calculate_average_repair_time can return for store s: 0.0 when no
\* row is selected, and 0.0 from the except clause when a date of a selected
\* row does not parse.
AverageRepairTime(s) ==
    IF Finished(s) = {} THEN {0}
    ELSE IF \E id \in Finished(s) : Unparsable(s, id) THEN {0}
         ELSE MeanHours(s, Finished(s))

\* AVG((julianday(completion_date) - julianday(created_date)) * 24) over
\* the rows WHERE completion_date IS NOT NULL, then "round(avg, 2) if avg
\* else 0": AVG over no row is NULL (the dates are time stamps).
AverageCompletionHours(s) ==
    IF Finished(s) = {} THEN {0} ELSE MeanHours(s, Finished(s))

\* Faulty variant of GroupCounts: COUNT(completion_date), which counts the
\* rows whose completion_date is not null, in place of COUNT(*); C16 must
\* tell it from GroupCounts.
GroupCountsFinished(s, column) ==
    [v \in {s.requests[id][column] : id \in DOMAIN s.requests} |->
        Cardinality({id \in Finished(s) : s.requests[id][column] = v})]

\* SELECT column, COUNT(*) FROM requests GROUP BY column, as a map.
GroupCounts(s, column) ==
    [v \in {s.requests[id][column] : id \in DOMAIN s.requests} |->
        Cardinality({id \in DOMAIN s.requests : s.requests[id][column] = v})]

\* What get_request_statistics can return for store s.
RequestStatistics(s) ==
    {[total_requests |-> Cardinality(DOMAIN s.requests),
      status_counts |-> GroupCounts(s, "status"),
      average_completion_hours |-> avg,
      device_statistics |-> GroupCounts(s, "device_type")] :
         avg \in AverageCompletionHours(s)}

\* Faulty variant of CountedCompleted: status ST_READY counted too, which
\* C17 must tell from it.
CountedDone(s, ids) ==
    {id \in ids : /\ s.requests[id].status \in DoneStatuses
                  /\ s.requests[id].completion_date # NULL}

\* if status == 'Zavershena' and completed_str: the requests of ids that
\* calculate_request_statistics_by_device counts as completed.
CountedCompleted(s, ids) ==
    {id \in ids : /\ s.requests[id].status = ST_COMPLETED
                  /\ s.requests[id].completion_date # NULL}

\* The requests of store s of one device_type.
OfDevice(s, device_type) ==
    {id \in DOMAIN s.requests : s.requests[id].device_type = device_type}

\* device_stats[device_type]['problems'][problem]: the number of requests
\* of the group with this problem_description.
ProblemCount(s, group, problem) ==
    Cardinality({id \in group : s.requests[id].problem_description = problem})

\* The orders in which the keys of the dict problems of a group can stand:
\* a dict keeps its keys in the order they were first inserted, that is the
\* order in which the loop over all_requests first meets each
\* problem_description, and the query (ORDER BY device_type) does not fix
\* the order of the rows of one device type: any order of the distinct
\* descriptions of the group.
EncounterOrders(s, group) ==
    LET problems == {s.requests[id].problem_description : id \in group}
    IN  {q \in [1..Cardinality(problems) -> problems] :
            \A i, j \in DOMAIN q : i # j => q[i] # q[j]}

\* Faulty variant of MostCommonProblem: of the descriptions of the highest
\* count the last met, which C28 must tell from it.
MostCommonProblemLast(s, group, seen) ==
    LET best(i) == \A j \in DOMAIN seen :
                       ProblemCount(s, group, seen[i]) >= ProblemCount(s, group, seen[j])
    IN  seen[CHOOSE i \in DOMAIN seen : best(i) /\ \A j \in DOMAIN seen : j > i => ~best(j)]

\* max(stats['problems'].items(), key=lambda x: x[1])[0]: max returns the
\* first of the items of the highest count, in the order seen of the dict.
MostCommonProblem(s, group, seen) ==
    LET best(i) == \A j \in DOMAIN seen :
                       ProblemCount(s, group, seen[i]) >= ProblemCount(s, group, seen[j])
    IN  seen[CHOOSE i \in DOMAIN seen : best(i) /\ \A j \in DOMAIN seen : j < i => ~best(j)]

\* What result_stats[device_type] can be when the problems of the group
\* were met in the order seen.
DeviceStats(s, device_type, seen) ==
    LET group == OfDevice(s, device_type)
        completed == CountedCompleted(s, group)
    IN  {[total_requests |-> Cardinality(group),
          completed_requests |-> Cardinality(completed),
          average_repair_time_hours |-> avg,
          most_common_problem |-> MostCommonProblem(s, group, seen),
          completion_rate |-> rate] :
             avg \in (IF completed = {} THEN {0} ELSE MeanHours(s, completed)),
             rate \in Rounded(Cardinality(completed) * 100 * 100, Cardinality(group))}

\* The orders in which the loop can have met the problems of each device
\* type of store s.
EncounterMaps(s) ==
    LET types == {s.requests[id].device_type : id \in DOMAIN s.requests}
    IN  {f \in [types -> UNION {EncounterOrders(s, OfDevice(s, d)) : d \in types}] :
            \A d \in types : f[d] \in EncounterOrders(s, OfDevice(s, d))}

\* What calculate_request_statistics_by_device can return for store s when
\* the problems were met in the orders seen: a map from each device_type
\* that occurs to its statistics, and the empty map from the except clause
\* when a date of a row counted as completed does not parse.
StatisticsByDeviceSeen(s, seen) ==
    LET types == {s.requests[id].device_type : id \in DOMAIN s.requests}
    IN  IF \E id \in CountedCompleted(s, DOMAIN s.requests) : Unparsable(s, id)
        THEN {EmptyTable}
        ELSE {f \in [types -> UNION {DeviceStats(s, d, seen[d]) : d \in types}] :
                 \A d \in types : f[d] \in DeviceStats(s, d, seen[d])}

\* What calculate_request_statistics_by_device can return for store s.
StatisticsByDevice(s) ==
    UNION {StatisticsByDeviceSeen(s, seen) : seen \in EncounterMaps(s)}

\* Faulty variant of MostFirst: ORDER BY COUNT(*) ASC, which C18 must tell
\* from it.
FewestFirst(counts, a, b) == counts[a] <= counts[b]

\* ORDER BY COUNT(*) DESC: status a may come before status b.
MostFirst(counts, a, b) == counts[a] >= counts[b]

\* round(count / total * 100, 2)
Percentage(count, total) == Rounded(count * 100 * 100, total)

\* The list the second query and the loop of calculate_status_distribution
\* build from store s and the total the first query has read: one tuple
\* (status, count, percentage of total) for each status that occurs, most
\* frequent first, statuses of equal count in an order SQL does not fix.
DistributionTuples(s, total) ==
    LET counts == GroupCounts(s, "status")
        n == Cardinality(DOMAIN counts)
        orders == {q \in [1..n -> DOMAIN counts] :
                      /\ \A i, j \in 1..n : i # j => q[i] # q[j]
                      /\ \A i, j \in 1..n : i < j => MostFirst(counts, q[i], q[j])}
        percents == {p \in [DOMAIN counts ->
                               UNION {Percentage(counts[st], total) : st \in DOMAIN counts}] :
                        \A st \in DOMAIN counts : p[st] \in Percentage(counts[st], total)}
    IN  {[i \in 1..n |-> <<q[i], counts[q[i]], p[q[i]]>>] :
             q \in orders, p \in percents}

\* What calculate_status_distribution can return for store s when no write
\* comes between its two queries: [] when there is no request, else the
\* tuples with the percentages of the number of requests.
StatusDistribution(s) ==
    LET total == Cardinality(DOMAIN s.requests)
    IN  IF total = 0 THEN {<<>>} ELSE DistributionTuples(s, total)

\* f"{end_date} 23:59:59": no time stamp of the day is later, and every
\* time stamp of the next day is.
DayEnd(day) == DayStart(day) + DayLen - 1

\* The WHERE clause get_performance_metrics builds: BETWEEN when both dates
\* are truthy, >= or <= when one is, none when neither is (NULL stands for a
\* date that is None or empty).
InDateRange(created_date, start_date, end_date) ==
    /\ start_date = NULL \/ created_date >= DayStart(start_date)
    /\ end_date = NULL \/ created_date <= DayEnd(end_date)

\* days = (end - start).days + 1
SpanDays(start_date, end_date) == (end_date - start_date) + 1

\* The characters of the text of ST_COMPLETED (a client_name is kept as
\* its characters).
CompletedText == <<"Z", "a", "v", "e", "r", "s", "h", "e", "n", "a">>

\* req[5] == 'Zavershena': in SELECT * FROM requests column 5 is client_name
\* (status is column 7), so the test is on the client's name.
Column5IsCompleted(s, id) == s.requests[id].client_name = CompletedText

\* The master_name values of the rows requests that "if master:" lets in.
MastersOf(s, requests) ==
    {s.requests[id].master_name :
         id \in {r \in requests : Truthy(s.requests[r].master_name)}}

\* What master_efficiency[master] can be after the two loops over the
\* selected rows requests.
MasterStats(s, requests, master) ==
    LET mine == {id \in requests : s.requests[id].master_name = master}
        completed == {id \in mine : Column5IsCompleted(s, id)}
    IN  {[completed |-> Cardinality(completed),
          total |-> Cardinality(mine),
          efficiency |-> e] :
             e \in Rounded(Cardinality(completed) * 100 * 100, Cardinality(mine))}

\* What master_efficiency can be for the selected rows requests.
MasterEfficiency(s, requests) ==
    LET masters == MastersOf(s, requests)
    IN  {f \in [masters -> UNION {MasterStats(s, requests, m) : m \in masters}] :
            \A m \in masters : f[m] \in MasterStats(s, requests, m)}

\* LENGTH(parts_ordered): NULL for NULL, which SUM skips.
PartsLength(parts_ordered) ==
    IF parts_ordered = NONE THEN 0 ELSE Len(parts_ordered)

RECURSIVE PartsLengthSum(_, _)
\* SELECT SUM(LENGTH(parts_ordered)) FROM comments, "or 0" applied, over the
\* comments ids.
PartsLengthSum(s, ids) ==
    IF ids = {} THEN 0
    ELSE LET c == CHOOSE x \in ids : TRUE
         IN  PartsLength(s.comments[c].parts_ordered) + PartsLengthSum(s, ids \ {c})

\* total_parts_length * 10
TotalPartsCost(s) == PartsLengthSum(s, DOMAIN s.comments) * 10

\* What get_performance_metrics can return for store s.  When no request
\* is selected, the record of zeros, whose third key has another name and
\* whose total_parts_cost is 0 whatever the comments.  The loop over the
\* selected rows reads req[9], which in SELECT * is the column deadline (the
\* column completion_date is req[10]): a deadline that is set is parsed as
\* "%Y-%m-%d %H:%M:%S", and a deadline of the model is a date with no time
\* of day (what the GUI asks for), so strptime raises ValueError, which the
\* except clause turns into the empty dict.
PerformanceMetrics(s, start_date, end_date) ==
    LET requests == {id \in DOMAIN s.requests :
                        InDateRange(s.requests[id].created_date, start_date, end_date)}
        total_requests == Cardinality(requests)
    IN  IF requests = {}
        THEN {[total_requests |-> 0,
               requests_per_day |-> 0,
               average_processing_time |-> 0,
               master_efficiency |-> EmptyTable,
               total_parts_cost |-> 0]}
        ELSE IF \E id \in requests : Truthy(s.requests[id].deadline)
             THEN {EmptyTable}
             ELSE {[total_requests |-> total_requests,
                    requests_per_day |-> per_day,
                    average_processing_time_hours |-> 0,
                    master_efficiency |-> eff,
                    total_parts_cost |-> TotalPartsCost(s)] :
                       per_day \in (IF start_date # NULL /\ end_date # NULL
                                    THEN Rounded(total_requests * 100,
                                                 SpanDays(start_date, end_date))
                                    ELSE {total_requests * 100}),
                       eff \in MasterEfficiency(s, requests)}

\* calculate_average_repair_time()
CalculateAverageRepairTime ==
    /\ pc = "query"
    /\ \E ret \in AverageRepairTime(tx) :
           last' = Answer("average_repair_time", NONE, ret)
    /\ pc' = "answered"
    /\ UNCHANGED <<db, tx, now, steps>>

\* get_request_statistics()
GetRequestStatistics ==
    /\ pc = "query"
    /\ \E ret \in RequestStatistics(tx) :
           last' = Answer("get_request_statistics", NONE, ret)
    /\ pc' = "answered"
    /\ UNCHANGED <<db, tx, now, steps>>

\* calculate_request_statistics_by_device(); the answer keeps, as arg, the
\* order in which the loop met the problems of each device type.
CalculateRequestStatisticsByDevice ==
    /\ pc = "query"
    /\ \E seen \in EncounterMaps(tx) :
           \E ret \in StatisticsByDeviceSeen(tx, seen) :
               last' = Answer("statistics_by_device", seen, ret)
    /\ pc' = "answered"
    /\ UNCHANGED <<db, tx, now, steps>>

\* calculate_status_distribution()
CalculateStatusDistribution ==
    /\ pc = "query"
    /\ \E ret \in StatusDistribution(tx) :
           last' = Answer("status_distribution", NONE, ret)
    /\ pc' = "answered"
    /\ UNCHANGED <<db, tx, now, steps>>

\* get_performance_metrics(start_date, end_date)
GetPerformanceMetrics(start_date, end_date) ==
    /\ pc = "query"
    /\ \E ret \in PerformanceMetrics(tx, start_date, end_date) :
           last' = Answer("performance_metrics", <<start_date, end_date>>, ret)
    /\ pc' = "answered"
    /\ UNCHANGED <<db, tx, now, steps>>

\* The date arguments: a day, or NULL for None and for the empty string.
DateArgs == {NULL} \cup (0..MaxArgDay)

\* Stores whose requests differ in created_date (10:00 of day 0 or 00:00:00
\* of day 1), in completion_date (none, 00:00:00 or 15:00 of day 1, never
\* before created_date) and in status.
TimingStores ==
    StoresOf(SUBSET QueryIds,
             {QueryRow(t[1], st, "Holodilnik", t[2], <<"zh">>, <<"7">>, <<"a">>) :
                  t \in {<<10, NULL>>, <<10, DayLen>>, <<10, DayLen + 15>>,
                         <<DayLen, NULL>>, <<DayLen, DayLen>>, <<DayLen, DayLen + 15>>},
                  st \in {ST_IN_PROGRESS, ST_COMPLETED}})

\* Stores whose requests differ in created_date (10:00 of day 0, 00:00:00
\* and the last hour of day 1) and in deadline (none, or the date
\* extend_deadline has stored).
MetricsStores ==
    StoresOf(SUBSET QueryIds,
             {[QueryRow(t, ST_NEW, "Holodilnik", NULL, <<"zh">>, <<"7">>, <<"a">>)
                   EXCEPT !.deadline = dl] :
                  t \in {10, DayLen, 2 * DayLen - 1},
                  dl \in {NONE} \cup NewDeadlines})

\* Stores whose requests differ in status, device_type and completion_date.
GroupingStores ==
    StoresOf(SUBSET QueryIds,
             {QueryRow(10, st, d, c, <<"zh">>, <<"7">>, <<"a">>) :
                  st \in {ST_NEW, ST_READY, ST_COMPLETED},
                  d \in {"Holodilnik", "Stiralnaya mashina"},
                  c \in {NULL, DayLen + 15}})

\* Stores of up to MaxDistRequests requests that differ in status.
DistributionStores ==
    StoresOf({1..n : n \in 0..MaxDistRequests},
             {QueryRow(10, st, "Holodilnik", NULL, <<"zh">>, <<"7">>, <<"a">>) :
                  st \in {ST_NEW, ST_IN_PROGRESS, ST_COMPLETED}})

\* Stores whose requests differ in master_name (none, empty, two masters),
\* in status and in client_name (one client is named as the status
\* ST_COMPLETED is).
MasterStores ==
    StoresOf(SUBSET QueryIds,
             {[QueryRow(10, st, "Holodilnik", NULL, name, <<"7">>, <<"a">>)
                   EXCEPT !.master_name = m] :
                  st \in {ST_READY, ST_COMPLETED},
                  name \in {<<"zh">>, CompletedText},
                  m \in MasterArgs})

\* The tables of comments on request 1: parts_ordered is a text, the empty
\* text or NULL (the CSV import stores none).
CommentTables ==
    UNION {[D -> [request_id : {1}, parts_ordered : PartsArgs \cup {"", NONE}]] :
               D \in SUBSET CommentIds}

\* Stores with comments: request 1 and possibly request 2, which differ in
\* created_date and deadline.
PartsStores ==
    {[st EXCEPT !.comments = c, !.seq.comments = SetMax(DOMAIN c)] :
         st \in StoresOf({{1}, {1, 2}},
                         {[QueryRow(t, ST_NEW, "Holodilnik", NULL, <<"zh">>, <<"7">>, <<"a">>)
                               EXCEPT !.deadline = dl] :
                              t \in {10, 2 * DayLen - 1},
                              dl \in {NONE} \cup NewDeadlines}),
         c \in CommentTables}

\* Stores whose requests differ in problem_description and device_type.
ProblemStores ==
    StoresOf(SUBSET QueryIds,
             {[QueryRow(10, ST_NEW, d, NULL, <<"zh">>, <<"7">>, <<"a">>)
                   EXCEPT !.problem_description = p] :
                  d \in {"Holodilnik", "Stiralnaya mashina"},
                  p \in {"ne vklyuchaetsya", "shumit", "techet"}})

\* Any of these stores, committed, and a connection open on it.
InitAnalytics ==
    /\ tx \in TimingStores \cup MetricsStores \cup GroupingStores \cup DistributionStores
                \cup MasterStores \cup PartsStores \cup ProblemStores
    /\ db = tx
    /\ now = 2 * DayLen
    /\ pc = "query"
    /\ last = Answer("init", NONE, <<>>)
    /\ steps = 0

NextAnalytics ==
    \/ CalculateAverageRepairTime
    \/ GetRequestStatistics
    \/ CalculateRequestStatisticsByDevice
    \/ CalculateStatusDistribution
    \/ \E start_date \in DateArgs, end_date \in DateArgs :
           GetPerformanceMetrics(start_date, end_date)

SpecAnalytics == InitAnalytics /\ [][NextAnalytics]_vars

\* Stores in which exactly one request has a date that does not parse (its
\* created_date or its completion_date), the others being well-formed.
MalformedStores ==
    LET good == {QueryRow(10, st, "Holodilnik", c, <<"zh">>, <<"7">>, <<"a">>) :
                     st \in {ST_NEW, ST_COMPLETED}, c \in {NULL, DayLen + 15}}
        bad == {QueryRow(t[1], st, "Holodilnik", t[2], <<"zh">>, <<"7">>, <<"a">>) :
                    st \in {ST_NEW, ST_COMPLETED},
                    t \in {<<MALFORMED, NULL>>, <<MALFORMED, DayLen + 15>>,
                           <<10, MALFORMED>>}}
    IN  {st \in StoresOf(SUBSET QueryIds, good \cup bad) :
            Cardinality({id \in DOMAIN st.requests : st.requests[id] \in bad}) = 1}

\* Any of these stores, committed, and a connection open on it.
InitMalformed ==
    /\ tx \in MalformedStores
    /\ db = tx
    /\ now = 2 * DayLen
    /\ pc = "query"
    /\ last = Answer("init", NONE, <<>>)
    /\ steps = 0

\* The operations of src/src/algorithms.py that parse the stored dates.
NextMalformed ==
    \/ CalculateAverageRepairTime
    \/ CalculateRequestStatisticsByDevice
    \/ \E start_date \in DateArgs, end_date \in DateArgs :
           GetPerformanceMetrics(start_date, end_date)

SpecMalformed == InitMalformed /\ [][NextMalformed]_vars

-----------------------------------------------------------------------------
(* calculate_status_distribution beside a writer.  The function runs two   *)
(* queries on the shared connection with no transaction around them, so    *)
(* each reads the database file as it is at that moment; another process   *)
(* running the application on the same file can commit a write between     *)
(* them.  pc goes from "query" to "counted" after the query of the       *)
(* number of requests and to "answered" after the GROUP BY query; steps    *)
(* counts the other process's writes.                                      *)

\* The first query: total = SELECT COUNT(*) FROM requests, and [] at once
\* when it is 0.  The writes so far are kept with the total.
CountRequests ==
    /\ pc = "query"
    /\ LET total == Cardinality(DOMAIN tx.requests)
       IN  IF total = 0
           THEN /\ pc' = "answered"
                /\ last' = Answer("status_distribution",
                                  [total |-> 0, writes |-> 0], <<>>)
           ELSE /\ pc' = "counted"
                /\ last' = Answer("count", steps, total)
    /\ UNCHANGED <<db, tx, now, steps>>

\* Faulty variant of GroupByStatus: the percentages are taken of the number
\* of requests at the second query, which C29 must tell from it.
GroupByStatusRecounted ==
    /\ pc = "counted"
    /\ \E ret \in DistributionTuples(tx, Cardinality(DOMAIN tx.requests)) :
           last' = Answer("status_distribution",
                          [total |-> last.ret, writes |-> steps - last.arg], ret)
    /\ pc' = "answered"
    /\ UNCHANGED <<db, tx, now, steps>>

\* The second query and the loop: the counts of the store as it is now, the
\* percentages of the total the first query read.  The answer keeps, as
\* arg, that total and the number of writes since the first query.
GroupByStatus ==
    /\ pc = "counted"
    /\ \E ret \in DistributionTuples(tx, last.ret) :
           last' = Answer("status_distribution",
                          [total |-> last.ret, writes |-> steps - last.arg], ret)
    /\ pc' = "answered"
    /\ UNCHANGED <<db, tx, now, steps>>

\* The other process commits store s: the file has it, and so has the
\* view of this connection, which has no transaction open.
OtherCommits(s) ==
    /\ pc \in {"query", "counted"}
    /\ steps < MaxWrites
    /\ steps' = steps + 1
    /\ db' = s
    /\ tx' = s
    /\ UNCHANGED <<now, pc, last>>

\* add_request in the other process.
OtherAddRequest(device_type, deadline) ==
    /\ NextRowid(db, "requests") <= MaxId
    /\ OtherCommits(InsertRequest(db, NewRequestRow(device_type, deadline, now)))

\* update_request_status in the other process.
OtherUpdateRequestStatus(request_id, new_status) ==
    /\ request_id \in DOMAIN db.requests
    /\ OtherCommits(UpdateStatusExec(db, request_id, new_status, NONE, now))

\* The deletion of a request in the other process.
OtherDeleteRequest(request_id) ==
    /\ request_id \in DOMAIN db.requests
    /\ OtherCommits(DeleteRequestExec(db, request_id))

\* A new database file, and the connection about to ask.
InitConcurrent ==
    /\ db = EmptyStore
    /\ tx = EmptyStore
    /\ now = FirstNow
    /\ pc = "query"
    /\ last = Answer("init", NONE, <<>>)
    /\ steps = 0

NextConcurrent ==
    \/ CountRequests
    \/ GroupByStatus
    \/ \E d \in DeviceTypes, dl \in DeadlineArgs : OtherAddRequest(d, dl)
    \/ \E id \in RequestIds, st \in UpdateStatuses : OtherUpdateRequestStatus(id, st)
    \/ \E id \in RequestIds : OtherDeleteRequest(id)

SpecConcurrent == InitConcurrent /\ [][NextConcurrent]_vars

-----------------------------------------------------------------------------
(* The specification. *)

\* Database(): the tables created, nothing stored, one connection open.
Init ==
    /\ db = EmptyStore
    /\ tx = EmptyStore
    /\ now = FirstNow
    /\ pc = "ready"
    /\ last = Outcome("init", 0, "None", NONE, NULL)
    /\ steps = 0

Next ==
    \/ \E d \in DeviceTypes, dl \in DeadlineArgs, f \in BOOLEAN :
           AddRequest(d, dl, f)
    \/ \E id \in RequestIds, st \in UpdateStatuses, m \in MasterArgs,
          f \in {"none", "execute", "commit"} :
           UpdateRequestStatus(id, st, m, f)
    \/ \E id \in RequestIds, dl \in NewDeadlines, f \in BOOLEAN :
           ExtendDeadline(id, dl, f)
    \/ \E id \in RequestIds, p \in PartsArgs, f \in BOOLEAN :
           AddComment(id, p, f)
    \/ \E id \in RequestIds, f \in {"none", "execute", "commit"} :
           DeleteRequest(id, f)
    \/ StartApplication
    \/ \E file \in SeqsUpTo(UserRows, MaxCsvRows) : ImportUsers(file)
    \/ \E file \in SeqsUpTo(RequestRows, MaxCsvRows) : ImportRequests(file)
    \/ \E file \in SeqsUpTo(CommentRows, MaxCsvRows) : ImportComments(file)
    \/ Tick

Spec == Init /\ [][Next]_vars

-----------------------------------------------------------------------------
(* Claims. *)

\* The step is the operation op of the program (the clock is no operation).
Did(op) == steps' # steps /\ last'.op = op

\* C1: in every reachable state of the store, a request's completion_date
\* is non-null if and only if the request has at some point been put into
\* status ST_READY or ST_COMPLETED.  (Fails: import_requests copies status
\* and completion_date from the CSV row independently of each other.)
C1_CompletionIffEverDone ==
    \A id \in DOMAIN tx.requests :
        (tx.requests[id].completion_date # NULL) <=> tx.requests[id].ever

FailedWrite ==
    \/ Did("add_request") /\ last'.ret = "raise"
    \/ Did("update_request_status") /\ last'.ret = "raise"
    \/ Did("import_requests") /\ last'.ret = "raise"
    \/ Did("add_comment") /\ last'.ret = "False"
    \/ Did("extend_deadline") /\ \E id \in RequestIds, dl \in NewDeadlines :
                                     ExtendDeadline(id, dl, TRUE)

\* C3: every write is atomic: when a write operation fails, the persisted
\* state is what it was, and the connection holds none of the operation's
\* changes for a later commit to persist (its state is what it was before
\* the operation, or the persisted state after a rollback).
C3_FailedWriteLeavesNothing ==
    [][FailedWrite => (db' = db /\ (tx' = tx \/ tx' = db))]_vars

C5_UpdateReturnsWhetherMatched ==
    [][Did("update_request_status") =>
          \A id \in RequestIds, st \in UpdateStatuses, m \in MasterArgs :
              UpdateRequestStatus(id, st, m, "none") =>
                  IF id \in DOMAIN tx.requests
                  THEN /\ last'.ret = "True"
                       /\ id \in DOMAIN tx'.requests
                       /\ tx'.requests[id].status = st
                       /\ tx'.requests[id].updated_date = now
                       /\ db'.requests[id] = tx'.requests[id]
                  ELSE /\ last'.ret = "False"
                       /\ tx'.requests = tx.requests]_vars

\* C5 witness: an update of an id that no request has returned False while
\* another request is stored.
C5_Witness ==
    /\ last.op = "update_request_status"
    /\ last.ret = "False"
    /\ last.id \notin DOMAIN tx.requests
    /\ DOMAIN tx.requests # {}

\* C6: update_request_status overwrites master_name with the given value
\* when it is given and non-empty; when it is None or "" the previous
\* master_name is left unchanged, for every new_status.
C6_MasterOverwrittenOnlyWhenGiven ==
    [][Did("update_request_status") =>
          \A id \in DOMAIN tx.requests, st \in UpdateStatuses, m \in MasterArgs :
              UpdateRequestStatus(id, st, m, "none") =>
                  tx'.requests[id].master_name =
                      IF m = NONE \/ m = "" THEN tx.requests[id].master_name ELSE m]_vars

\* C6 witness: an update given the empty string as master_name has left
\* the master the request had.
C6_Witness ==
    /\ last.op = "update_request_status"
    /\ last.ret = "True"
    /\ last.master = ""
    /\ tx.requests[last.id].master_name = "Master Petrov"
    /\ tx.requests[last.id].status = ST_COMPLETED

\* C7: every update_request_status into ST_READY or ST_COMPLETED stamps
\* completion_date with the time of that call, also when the request
\* already had one (the first value is not preserved).
C7_CompletionRestamped ==
    [][Did("update_request_status") =>
          \A id \in DOMAIN tx.requests, st \in DoneStatuses, m \in MasterArgs :
              UpdateRequestStatus(id, st, m, "none") =>
                  /\ tx'.requests[id].completion_date = now
                  /\ db'.requests[id].completion_date = now]_vars

\* C7 witness: a request that had a completion_date of an earlier tick has,
\* after an update into a done status, the time of that update.
C7_Witness ==
    /\ last.op = "update_request_status"
    /\ last.ret = "True"
    /\ last.was # NULL
    /\ last.was < now
    /\ tx.requests[last.id].status \in DoneStatuses
    /\ tx.requests[last.id].completion_date = now

\* C8: extend_deadline(id, d) sets deadline = d and updated_date = now on
\* the request with that id and returns True exactly when such a request
\* exists; on a storage fault it rolls back and returns False, leaving the
\* stored requests unchanged.
C8_ExtendDeadline ==
    [][Did("extend_deadline") =>
          \A id \in RequestIds, dl \in NewDeadlines :
              /\ ExtendDeadline(id, dl, FALSE) =>
                     IF id \in DOMAIN tx.requests
                     THEN /\ last'.ret = "True"
                          /\ tx'.requests[id].deadline = dl
                          /\ tx'.requests[id].updated_date = now
                          /\ db'.requests = tx'.requests
                     ELSE /\ last'.ret = "False"
                          /\ tx'.requests = tx.requests
              /\ ExtendDeadline(id, dl, TRUE) =>
                     /\ last'.ret = "False"
                     /\ db'.requests = db.requests
                     /\ tx' = db']_vars

\* C8 witness: a deadline extended at a tick after the request's creation.
C8_Witness ==
    /\ last.op = "extend_deadline"
    /\ last.ret = "True"
    /\ tx.requests[last.id].deadline \in NewDeadlines
    /\ tx.requests[last.id].updated_date = now
    /\ tx.requests[last.id].created_date < now

\* Every comment of store s belongs to a request of s.
CommentsHaveRequests(s) ==
    \A c \in DOMAIN s.comments : s.comments[c].request_id \in DOMAIN s.requests

\* C9: add_comment with a request_id that matches no stored request returns
\* False and persists no comment; and in every reachable state every stored
\* comment's request_id is the id of an existing request.
C9_NoOrphanComments ==
    /\ [](CommentsHaveRequests(tx) /\ CommentsHaveRequests(db))
    /\ [][Did("add_comment") =>
             \A id \in RequestIds \ DOMAIN tx.requests, p \in PartsArgs, f \in BOOLEAN :
                 AddComment(id, p, f) =>
                     /\ last'.ret = "False"
                     /\ db'.comments = db.comments
                     /\ tx'.comments = db.comments]_vars

\* C9 witness: add_comment on a missing request returned False while a
\* comment of an existing request is stored.
C9_Witness ==
    /\ last.op = "add_comment"
    /\ last.ret = "False"
    /\ last.id \notin DOMAIN tx.requests
    /\ DOMAIN tx.comments # {}

\* C10: deleting a request removes every comment whose request_id is that
\* request's id and no comment of any other request; afterwards no comment
\* has that request_id.
C10_DeleteCascades ==
    [][Did("delete_request") =>
          \A id \in RequestIds :
              DeleteRequest(id, "none") =>
                  /\ \A c \in DOMAIN tx.comments :
                         IF tx.comments[c].request_id = id
                         THEN c \notin DOMAIN tx'.comments
                         ELSE c \in DOMAIN tx'.comments /\ tx'.comments[c] = tx.comments[c]
                  /\ DOMAIN tx'.comments \subseteq DOMAIN tx.comments
                  /\ \A c \in DOMAIN db'.comments : db'.comments[c].request_id # id
                  /\ db'.comments = tx'.comments]_vars

\* C10 witness: a deletion took comment 1 with its request and left the
\* comment of the other request.
C10_Witness ==
    /\ last.op = "delete_request"
    /\ last.ret = "None"
    /\ last.id \notin DOMAIN tx.requests
    /\ tx.seq.comments = 2
    /\ DOMAIN tx.comments = {2}
    /\ DOMAIN tx.requests # {}

\* The number of rows of each table of store s.
RowCounts(s) ==
    [users |-> Cardinality(DOMAIN s.users),
     requests |-> Cardinality(DOMAIN s.requests),
     comments |-> Cardinality(DOMAIN s.comments)]

\* The store s already holds what an import of the two files gives: running
\* import_users and import_requests on them changes nothing and raises
\* nothing.
AlreadyImported(s, users_file, requests_file, t) ==
    /\ ImportUsersFrom(s, users_file, 1) = s
    /\ ImportRequestsFrom(s, requests_file, 1, t) = [store |-> s, raised |-> FALSE]

Occurs(term, text) ==
    \E k \in 0..(Len(text) - Len(term)) :
        \A i \in 1..Len(term) : FoldAscii(text[k + i]) = FoldAscii(term[i])

\* C13: search_requests(term) returns exactly the requests for which term
\* occurs as a substring of the decimal text of id, of client_name, of
\* client_phone or of device_model, newest first.  (Fails: "%" and "_" in
\* the term are wildcards of LIKE.)
C13_SearchIsSubstring ==
    last.op = "search_requests" =>
        LET ret == last.ret
            term == last.arg
            wanted == {id \in DOMAIN tx.requests :
                          \/ Occurs(term, DecimalText(id))
                          \/ Occurs(term, tx.requests[id].client_name)
                          \/ Occurs(term, tx.requests[id].client_phone)
                          \/ Occurs(term, tx.requests[id].device_model)}
        IN  /\ {ret[i] : i \in DOMAIN ret} = wanted
            /\ Len(ret) = Cardinality(wanted)
            /\ \A i, j \in DOMAIN ret :
                   i < j => tx.requests[ret[i]].created_date
                                >= tx.requests[ret[j]].created_date

\* The distance between two integers.
Dist(a, b) == IF a >= b THEN a - b ELSE b - a

\* n is num / den (den > 0) rounded to the nearest integer.
Nearest(n, num, den) == 2 * Dist(n * den, num) <= den

RECURSIVE SumOf(_)
\* The sum of the values of a finite map of integers.
SumOf(f) ==
    IF DOMAIN f = {} THEN 0
    ELSE LET k == CHOOSE x \in DOMAIN f : TRUE
         IN  f[k] + SumOf([x \in (DOMAIN f) \ {k} |-> f[x]])

C15_AverageOverCompletedOnly ==
    last.op = "get_request_statistics" =>
        LET ids == {id \in DOMAIN tx.requests :
                       /\ tx.requests[id].status \in {ST_COMPLETED, ST_READY}
                       /\ tx.requests[id].completion_date # NULL}
        IN  IF ids = {}
            THEN last.ret.average_completion_hours = 0
            ELSE Nearest(last.ret.average_completion_hours,
                         TicksSum(tx, ids) * 24 * 100, DayLen * Cardinality(ids))

\* C16: get_request_statistics() returns total_requests = the number of
\* stored requests, status_counts = the number of requests of each status
\* that occurs and device_statistics = the number of requests of each
\* device_type that occurs; the values of each of the two maps sum to
\* total_requests.
C16_CountsSumToTotal ==
    last.op = "get_request_statistics" =>
        LET ret == last.ret
            rows == tx.requests
        IN  /\ ret.total_requests = Cardinality(DOMAIN rows)
            /\ DOMAIN ret.status_counts = {rows[id].status : id \in DOMAIN rows}
            /\ \A st \in DOMAIN ret.status_counts :
                   ret.status_counts[st]
                       = Cardinality({id \in DOMAIN rows : rows[id].status = st})
            /\ DOMAIN ret.device_statistics = {rows[id].device_type : id \in DOMAIN rows}
            /\ \A d \in DOMAIN ret.device_statistics :
                   ret.device_statistics[d]
                       = Cardinality({id \in DOMAIN rows : rows[id].device_type = d})
            /\ SumOf(ret.status_counts) = ret.total_requests
            /\ SumOf(ret.device_statistics) = ret.total_requests

\* C16 witness: three requests, two of one status and two of one device
\* type, of which one has a completion_date.
C16_Witness ==
    /\ last.op = "get_request_statistics"
    /\ last.ret.total_requests = 3
    /\ Cardinality(DOMAIN last.ret.status_counts) = 2
    /\ Cardinality(DOMAIN last.ret.device_statistics) = 2
    /\ ST_READY \in DOMAIN last.ret.status_counts
    /\ last.ret.status_counts[ST_READY] = 2
    /\ Cardinality({id \in DOMAIN tx.requests :
                       tx.requests[id].completion_date # NULL}) = 1

\* C17: statistics_by_device() has one entry for each device_type that
\* occurs; total_requests is the number of requests of the type,
\* completed_requests the number of those whose status is ST_COMPLETED and
\* whose completion_date is not null (ST_READY is not counted), and
\* completion_rate is completed_requests / total_requests * 100 rounded to 2
\* decimals.
C17_ByDeviceCountsCompleted ==
    last.op = "statistics_by_device" =>
        LET ret == last.ret
            rows == tx.requests
        IN  /\ DOMAIN ret = {rows[id].device_type : id \in DOMAIN rows}
            /\ \A d \in DOMAIN ret :
                   LET group == {id \in DOMAIN rows : rows[id].device_type = d}
                       completed == {id \in group :
                                        /\ rows[id].status = ST_COMPLETED
                                        /\ rows[id].completion_date # NULL}
                   IN  /\ ret[d].total_requests = Cardinality(group)
                       /\ ret[d].completed_requests = Cardinality(completed)
                       /\ Nearest(ret[d].completion_rate,
                                  Cardinality(completed) * 100 * 100,
                                  Cardinality(group))

\* C17 witness: a device type with three requests, one in ST_COMPLETED and
\* one in ST_READY, both with a completion_date, and one in ST_COMPLETED
\* with none: one is counted, the rate is 33.33.
C17_Witness ==
    /\ last.op = "statistics_by_device"
    /\ DOMAIN last.ret = {"Holodilnik"}
    /\ last.ret["Holodilnik"].total_requests = 3
    /\ last.ret["Holodilnik"].completed_requests = 1
    /\ last.ret["Holodilnik"].completion_rate = 3333
    /\ \E id \in DOMAIN tx.requests :
           tx.requests[id].status = ST_READY /\ tx.requests[id].completion_date # NULL
    /\ \E id \in DOMAIN tx.requests :
           tx.requests[id].status = ST_COMPLETED /\ tx.requests[id].completion_date = NULL

\* C18: status_distribution() returns the empty list when there is no
\* request, and else exactly one tuple (status, count, percentage) for each
\* status that occurs, count the number of requests of the status,
\* percentage = count / total * 100 rounded to 2 decimals, the tuples in
\* order of non-increasing count.
C18_DistributionByCount ==
    last.op = "status_distribution" =>
        LET ret == last.ret
            rows == tx.requests
            total == Cardinality(DOMAIN rows)
        IN  IF total = 0
            THEN ret = <<>>
            ELSE /\ {ret[i][1] : i \in DOMAIN ret} = {rows[id].status : id \in DOMAIN rows}
                 /\ Len(ret) = Cardinality({rows[id].status : id \in DOMAIN rows})
                 /\ \A i \in DOMAIN ret :
                        /\ ret[i][2] = Cardinality({id \in DOMAIN rows :
                                                       rows[id].status = ret[i][1]})
                        /\ Nearest(ret[i][3], ret[i][2] * 100 * 100, total)
                 /\ \A i, j \in DOMAIN ret : i < j => ret[i][2] >= ret[j][2]

\* C18 witness: six requests, three, two and one of three statuses: 50.0,
\* 33.33 and 16.67 per cent in this order.
C18_Witness ==
    /\ last.op = "status_distribution"
    /\ Cardinality(DOMAIN tx.requests) = 6
    /\ Len(last.ret) = 3
    /\ <<last.ret[1][2], last.ret[1][3]>> = <<3, 5000>>
    /\ <<last.ret[2][2], last.ret[2][3]>> = <<2, 3333>>
    /\ <<last.ret[3][2], last.ret[3][3]>> = <<1, 1667>>

\* The sum of the percentages of a distribution, from its i-th tuple on.
RECURSIVE PercentSum(_, _)
PercentSum(ret, i) == IF i > Len(ret) THEN 0 ELSE ret[i][3] + PercentSum(ret, i + 1)

\* C19: whenever there is a request, the percentages status_distribution()
\* returns sum to 100 up to the rounding of each: the sum differs from 100
\* by at most 0.005 for each status returned.
C19_PercentagesSumTo100 ==
    (last.op = "status_distribution" /\ DOMAIN tx.requests # {}) =>
        2 * Dist(PercentSum(last.ret, 1), 100 * 100) <= Len(last.ret)

\* C19 witness: three statuses with one request each give 33.33 each, which
\* sum to 99.99.
C19_Witness ==
    /\ last.op = "status_distribution"
    /\ Cardinality(DOMAIN tx.requests) = 3
    /\ Len(last.ret) = 3
    /\ \A i \in 1..3 : last.ret[i][2] = 1 /\ last.ret[i][3] = 3333
    /\ PercentSum(last.ret, 1) = 9999

\* C20: performance_metrics(start, end) counts in total_requests exactly
\* the requests whose created_date is from start 00:00:00 on (when start is
\* given) and up to end 23:59:59, that is before the next day (when end is
\* given).  (Fails: when a selected request has a deadline, the result is
\* the empty dict.)
C20_TotalIsRequestsInRange ==
    last.op = "performance_metrics" =>
        LET start == last.arg[1]
            end == last.arg[2]
            inrange == {id \in DOMAIN tx.requests :
                           /\ start = NULL \/ tx.requests[id].created_date >= start * DayLen
                           /\ end = NULL \/ tx.requests[id].created_date < (end + 1) * DayLen}
        IN  /\ "total_requests" \in DOMAIN last.ret
            /\ last.ret.total_requests = Cardinality(inrange)

\* The requests get_performance_metrics(start_date, end_date) asks about:
\* those of store s whose created_date is in the range, both days included.
InRange(s, start_date, end_date) ==
    {id \in DOMAIN s.requests :
        /\ start_date # NULL => s.requests[id].created_date >= start_date * DayLen
        /\ end_date # NULL => s.requests[id].created_date < (end_date + 1) * DayLen}

\* C21: performance_metrics(start, end) with both bounds given and a
\* filtered set that is not empty has days = (end - start) + 1 >= 1 and
\* requests_per_day = total_requests / days rounded to 2 decimals; with at
\* most one bound given (and a filtered set that is not empty),
\* requests_per_day is total_requests.  (Fails where C20 fails: a selected
\* request with a deadline makes the result the empty dict.)
C21_RequestsPerDay ==
    (pc = "answered" /\ last.op = "performance_metrics"
        /\ InRange(tx, last.arg[1], last.arg[2]) # {}) =>
            LET total == Cardinality(InRange(tx, last.arg[1], last.arg[2]))
                days == (last.arg[2] - last.arg[1]) + 1
            IN  /\ "requests_per_day" \in DOMAIN last.ret
                /\ IF last.arg[1] # NULL /\ last.arg[2] # NULL
                   THEN /\ days >= 1
                        /\ Nearest(last.ret.requests_per_day, total * 100, days)
                   ELSE last.ret.requests_per_day = total * 100

\* C22: in performance_metrics (of a filtered set that is not empty),
\* master_efficiency has an entry for exactly the master_name values, not
\* null and not empty, of the filtered requests; for each master, total is
\* the number of filtered requests of the master, completed the number of
\* those whose status is ST_COMPLETED, efficiency = completed / total * 100
\* rounded to 2 decimals, so completed <= total and 0 <= efficiency <= 100.
\* (Fails: the code tests req[5], the client's name, for the status text;
\* and where C20 fails the result has no master_efficiency.)
C22_MasterEfficiency ==
    (pc = "answered" /\ last.op = "performance_metrics"
        /\ InRange(tx, last.arg[1], last.arg[2]) # {}) =>
            LET rows == tx.requests
                filtered == InRange(tx, last.arg[1], last.arg[2])
                masters == {rows[id].master_name : id \in filtered} \ {NONE, ""}
            IN  /\ "master_efficiency" \in DOMAIN last.ret
                /\ DOMAIN last.ret.master_efficiency = masters
                /\ \A m \in masters :
                       LET mine == {id \in filtered : rows[id].master_name = m}
                           completed == {id \in mine : rows[id].status = ST_COMPLETED}
                           e == last.ret.master_efficiency[m]
                       IN  /\ e.total = Cardinality(mine)
                           /\ e.completed = Cardinality(completed)
                           /\ Nearest(e.efficiency, Cardinality(completed) * 100 * 100,
                                      Cardinality(mine))
                           /\ e.completed <= e.total
                           /\ e.efficiency >= 0 /\ e.efficiency <= 100 * 100

\* The number of characters of the parts_ordered of each comment of store s
\* (0 for a null parts_ordered).
PartsChars(s) ==
    [c \in DOMAIN s.comments |->
        IF s.comments[c].parts_ordered = NONE THEN 0
        ELSE Len(s.comments[c].parts_ordered)]

\* C23: performance_metrics(start, end).total_parts_cost is 10 times the
\* sum of the character lengths of the parts_ordered of every stored
\* comment, for every choice of bounds and every store, also when the date
\* filter selects no request.  (Fails: when the filter selects no request
\* the cost returned is 0 whatever the comments; and where C20 fails the
\* result has no total_parts_cost.)
C23_PartsCostOverAllComments ==
    (pc = "answered" /\ last.op = "performance_metrics") =>
        /\ "total_parts_cost" \in DOMAIN last.ret
        /\ last.ret.total_parts_cost = 10 * SumOf(PartsChars(tx))

\* The keys of a normal result of get_performance_metrics.
MetricsKeys ==
    {"total_requests", "requests_per_day", "average_processing_time_hours",
     "master_efficiency", "total_parts_cost"}

\* C24: the analytics operations return their zero or empty default on
\* empty input and when a date fails to parse: average_repair_time 0.0,
\* statistics_by_device the empty map, status_distribution the empty list,
\* performance_metrics a record with the keys of a normal result holding
\* zero and empty values.  (Fails: on empty input performance_metrics names
\* its third key average_processing_time, and on a failed parse it returns
\* the empty dict.)
C24_DefaultsOnEmptyOrFailure ==
    pc = "answered" =>
        /\ (last.op = "average_repair_time" /\ DOMAIN tx.requests = {}) => last.ret = 0
        /\ (last.op = "statistics_by_device" /\ DOMAIN tx.requests = {}) =>
               last.ret = EmptyTable
        /\ (last.op = "status_distribution" /\ DOMAIN tx.requests = {}) =>
               last.ret = <<>>
        /\ (last.op = "performance_metrics" /\
               (\/ InRange(tx, last.arg[1], last.arg[2]) = {}
                \/ \E id \in InRange(tx, last.arg[1], last.arg[2]) :
                       tx.requests[id].deadline \notin {NONE, ""})) =>
               /\ DOMAIN last.ret = MetricsKeys
               /\ last.ret.total_requests = 0
               /\ last.ret.requests_per_day = 0
               /\ last.ret.average_processing_time_hours = 0
               /\ last.ret.master_efficiency = EmptyTable
               /\ last.ret.total_parts_cost = 0

\* Store s without the requests that have a date that does not parse.
WellFormedPart(s) ==
    [s EXCEPT !.requests = Drop(@, {id \in DOMAIN @ : Unparsable(s, id)})]

\* C25: when one stored request has a created_date or a completion_date
\* that does not parse, average_repair_time, statistics_by_device and
\* performance_metrics return what they return for the store without that
\* request.  (Fails: a date that does not parse ends the whole computation
\* in the except clause, with the default as result; and a request whose
\* date is not parsed at all is counted.)
C25_MalformedRecordDropped ==
    pc = "answered" =>
        /\ last.op = "average_repair_time" =>
               last.ret \in AverageRepairTime(WellFormedPart(tx))
        /\ last.op = "statistics_by_device" =>
               last.ret \in StatisticsByDevice(WellFormedPart(tx))
        /\ last.op = "performance_metrics" =>
               last.ret \in PerformanceMetrics(WellFormedPart(tx), last.arg[1], last.arg[2])

\* C26: across add_request, request deletion and CSV import, each id
\* add_request returns is greater than every id a request of the store has
\* had, deleted and imported ones included (the ids the persisted store has
\* had are never forgotten, and the requests it holds are among them), and
\* the request of that id is stored.
C26_IdsNeverReused ==
    [][/\ db.had \subseteq db'.had
       /\ DOMAIN db'.requests \subseteq db'.had
       /\ (Did("add_request") /\ last'.ret = "id") =>
              /\ \A id \in db.had \cup tx.had : last'.id > id
              /\ last'.id \in DOMAIN db'.requests]_vars

\* C26 witness: add_request has returned 2 for a store that holds no other
\* request, request 1 having been deleted.
C26_Witness ==
    /\ last.op = "add_request"
    /\ last.ret = "id"
    /\ last.id = 2
    /\ DOMAIN db.requests = {2}
    /\ db.had = {1, 2}
    /\ db = tx

\* The requests stored both before and after the step whose columns cols
\* are the same before and after, in the persisted store.
Kept(ids, cols) ==
    \A id \in ids \cap DOMAIN db.requests \cap DOMAIN db'.requests :
        \A col \in cols : db'.requests[id][col] = db.requests[id][col]

\* The columns of a request that the operations write after the insert.
RequestColumns ==
    {"created_date", "device_type", "status", "master_name", "deadline",
     "completion_date", "updated_date"}

\* C27: each mutation changes only its documented fields of the stored
\* requests: update_request_status never created_date or deadline,
\* extend_deadline never created_date, status, master_name or
\* completion_date, add_comment no field of any request; no operation a
\* field of a request other than the one it addresses by id; created_date
\* is never changed after the insert, and deadline only by
\* extend_deadline.  (Fails where C3 fails: the UPDATE that
\* update_request_status left uncommitted is persisted by the commit of the
\* next operation, whatever request that one addresses.)
C27_OnlyDocumentedFieldsChange ==
    [][/\ Did("update_request_status") =>
              Kept(RequestIds, {"created_date", "deadline"})
       /\ Did("extend_deadline") =>
              Kept(RequestIds, {"created_date", "status", "master_name", "completion_date"})
       /\ Did("add_comment") => Kept(RequestIds, RequestColumns)
       /\ (Did("update_request_status") \/ Did("extend_deadline")) =>
              Kept(RequestIds \ {last'.id}, RequestColumns)
       /\ Kept(RequestIds, {"created_date"})
       /\ ~Did("extend_deadline") => Kept(RequestIds, {"deadline"})]_vars

\* C28: in statistics_by_device(), most_common_problem of a device group is
\* a problem_description of the highest occurrence count in the group, and
\* of several of the highest count the one the iteration over the group's
\* requests met first (last.arg[d] is the order in which it met them).
C28_MostCommonProblemFirstMet ==
    (pc = "answered" /\ last.op = "statistics_by_device") =>
        \A d \in DOMAIN last.ret :
            LET rows == tx.requests
                group == {id \in DOMAIN rows : rows[id].device_type = d}
                count(p) == Cardinality({id \in group : rows[id].problem_description = p})
                top(p) == \A id \in group : count(p) >= count(rows[id].problem_description)
                met == last.arg[d]
                p == last.ret[d].most_common_problem
            IN  /\ \E id \in group : rows[id].problem_description = p
                /\ top(p)
                /\ \A i, j \in DOMAIN met : (met[j] = p /\ i < j) => ~top(met[i])

\* C28 witness: two problems of one device type tie with one request each,
\* a third has none there, and the answer is the one met first ("techet",
\* met before "shumit").
C28_Witness ==
    /\ pc = "answered"
    /\ last.op = "statistics_by_device"
    /\ "Holodilnik" \in DOMAIN last.ret
    /\ last.arg["Holodilnik"] = <<"techet", "shumit">>
    /\ last.ret["Holodilnik"].total_requests = 2
    /\ last.ret["Holodilnik"].most_common_problem = "techet"

RECURSIVE CountSum(_, _)
\* The sum of the counts of the tuples of ret from the i-th on.
CountSum(ret, i) == IF i > Len(ret) THEN 0 ELSE ret[i][2] + CountSum(ret, i + 1)

\* C29: status_distribution is not point-in-time consistent beside a
\* writer: its answer has the counts of the store as it is at the second
\* query and the percentages of the total read by the first, so that, when
\* (and only when) a write came between the two queries, the counts can
\* fail to sum to the total used for the percentages.
C29_CountsOfNowPercentOfBefore ==
    (pc = "answered" /\ last.op = "status_distribution") =>
        /\ {last.ret[i][1] : i \in DOMAIN last.ret} =
               {db.requests[id].status : id \in DOMAIN db.requests}
        /\ \A i \in DOMAIN last.ret :
               /\ last.ret[i][2] =
                      Cardinality({id \in DOMAIN db.requests :
                                      db.requests[id].status = last.ret[i][1]})
               /\ Nearest(last.ret[i][3], last.ret[i][2] * 100 * 100, last.arg.total)
        /\ CountSum(last.ret, 1) # last.arg.total => last.arg.writes > 0

\* C29 witness: the first query counted one request, the other process
\* added a second, and the answer is one status with count 2 and 200 per
\* cent.
C29_Witness ==
    /\ pc = "answered"
    /\ last.op = "status_distribution"
    /\ last.arg.total = 1
    /\ last.arg.writes = 1
    /\ last.ret = <<(<<ST_NEW, 2, 20000>>)>>

\* Every row of the three tables of store a is a row of store b, with the
\* same id and the same fields.
RowsKept(a, b) ==
    \A table \in {"requests", "comments", "users"} :
        \A id \in DOMAIN a[table] :
            id \in DOMAIN b[table] /\ b[table][id] = a[table][id]

\* C30: a CSV import never modifies or removes an existing row: every
\* request, comment and user stored before import_users, import_requests or
\* import_comments is stored after it with all its fields the same, in the
\* connection and on disk; and the import, at the next start, of any file
\* of requests that names the request update_request_status or
\* extend_deadline has just changed keeps every row as it is, so that later
\* edits are not overwritten.
C30_ImportKeepsExistingRows ==
    [][/\ (Did("import_users") \/ Did("import_requests") \/ Did("import_comments")) =>
              (RowsKept(tx, tx') /\ RowsKept(db, db'))
       /\ ((Did("update_request_status") \/ Did("extend_deadline"))
              /\ last'.ret = "True") =>
              \A file \in SeqsUpTo({row \in RequestRows : row.requestID = last'.id},
                                    MaxCsvRows) :
                  RowsKept(db', ImportRequestsFrom(db', file, 1, now).store)]_vars

\* C30 witness: import_requests has run on a store that held request 1,
\* completed and given a master before; it has inserted request 2 from the
\* file and request 1 is as it was.
C30_Witness ==
    /\ last.op = "import_requests"
    /\ last.ret = "None"
    /\ DOMAIN tx.requests = {1, 2}
    /\ tx.requests[1].status = ST_COMPLETED
    /\ tx.requests[1].master_name = "Master Ivanov"
    /\ tx.requests[1].completion_date # NULL
    /\ tx.requests[1].created_date >= FirstNow
    /\ tx.requests[2].created_date < FirstNow
    /\ tx.requests[2].updated_date = now
    /\ db = tx

====
